---- MODULE Spec2Model ----
(***************************************************************************)
(* Plan / execute / rotate engine of sopsistry (internal/core).            *)
(*                                                                         *)
(* The working directory, the persisted manifest (sopsistry.yaml) and the  *)
(* private key files under .secrets are the state.  The external tools     *)
(* (sops, age-keygen) and the operating system are the environment: a tool *)
(* invocation or a file operation either succeeds or fails.                *)
(***************************************************************************)
EXTENDS Integers, Sequences, FiniteSets, TLC

VARIABLES
    manifestFile,     \* sopsistry.yaml as persisted (configPath)
    files,            \* working directory: path -> content
    keyFiles,         \* .secrets: key file path -> private key (NoKey: no file);
                      \* the empty function when there is no .secrets directory
    keyBackup,        \* <keyPath>.backup: the private key it holds (NoKey: no file)
    gitignore,        \* .gitignore has a line that ignores .secrets
    now,              \* time.Now(), in hours
    output,           \* what the operation wrote to s.output: the key audit's report
    args,             \* the arguments of AddMember / RemoveMember / Init
    op,               \* the top-level operation in progress
    pc,               \* its position
    force,            \* RotateKey's force argument
    manifest,         \* the *Manifest the operation holds in memory
    plan,             \* what ComputePlan returned
    i,                \* Execute: loop index into plan.Actions
    executedActions,  \* Execute: the executedActions counter
    backupDir,        \* .sopsistry-backup: exists, and slot index -> content
    execResult,       \* what Execute returned
    result,           \* what the operation returned to its caller
    keyPath,          \* RotateKey: path of the member's current key file
    newKey,           \* RotateKey: the private key age-keygen generated
    pre,              \* history: files, manifestFile, keyFiles and plan when the operation began
    trace             \* history: what Execute and the error recovery did (tool
                      \* invocations, restores, failed restores, ...)

vars == <<manifestFile, files, keyFiles, keyBackup, gitignore, now, output, args, op, pc, force,
          manifest, plan, i, executedActions, backupDir, execResult, result, keyPath, newKey, pre, trace>>

(***************************************************************************)
(* Bounds of the model.                                                    *)
(***************************************************************************)
MaxPatterns == 2        \* patterns per scope in the manifests the planner is given

(***************************************************************************)
(* Values.                                                                 *)
(***************************************************************************)
\* Names in the working directory, in the lexical order filepath.Glob lists them.
PathOrder == <<"a.yaml", "b.yaml", "conf">>
Paths == {PathOrder[n] : n \in 1..Len(PathOrder)}

\* Glob patterns of the manifests explored; "[" is malformed (filepath.ErrBadPattern).
Patterns == {"a*", "*", "["}

IDs == {"alice", "bob"}
\* Member references of a scope, in the manifests explored.
MemberLists == {<<>>, <<"alice">>, <<"alice", "bob">>}
ScopeNames == <<"default", "restricted">>

\* Private keys are numbers; age-keygen -y derives the public identity.
NoKey == 0
PublicKey(k) == <<"age1", k>>

SeqsUpTo(S, n) == UNION {[1..m -> S] : m \in 0..n}
SeqToSet(s) == {s[n] : n \in 1..Len(s)}

\* One file's bytes: a plain document, a sops document encrypted for rcpt,
\* what a failed in-place write left behind, a directory, or nothing.
\* rev tells apart the bytes of successive encryptions of the same file.
\* mark: the bytes contain one of the tokens isSOPSFile searches for.
Absent == [kind |-> "absent", rcpt |-> <<>>, rev |-> 0, mark |-> FALSE]
Dir    == [kind |-> "dir",    rcpt |-> <<>>, rev |-> 0, mark |-> FALSE]
Plain(m) == [kind |-> "plain", rcpt |-> <<>>, rev |-> 0, mark |-> m]
Sops(r, v) == [kind |-> "sops", rcpt |-> r, rev |-> v, mark |-> TRUE]
Partial(v) == [kind |-> "partial", rcpt |-> <<>>, rev |-> v, mark |-> FALSE]

Exists(c) == c.kind # "absent"

(***************************************************************************)
(* Manifest (manifest.go).                                                 *)
(***************************************************************************)
Member(id, key, created) == [ID |-> id, AgeKey |-> key, Created |-> created]
Scope(name, patterns, members) == [Name |-> name, Patterns |-> patterns, Members |-> members]
Manifest(members, scopes, maxAge) ==
    [Members |-> members, Scopes |-> scopes, Settings |-> [MaxKeyAgeDays |-> maxAge]]

NoManifest == [Members |-> <<>>, Scopes |-> <<>>, Settings |-> [MaxKeyAgeDays |-> -1]]

\* GetMemberAgeKey: the age key of the first member with that ID.
RECURSIVE GetMemberAgeKey(_, _)
GetMemberAgeKey(members, id) ==
    IF members = <<>> THEN [found |-> FALSE, key |-> <<>>]
    ELSE IF Head(members).ID = id THEN [found |-> TRUE, key |-> Head(members).AgeKey]
    ELSE GetMemberAgeKey(Tail(members), id)

\* The loop of GetScopeMembers over scope.Members: stops at the first unknown ID.
RECURSIVE resolveMembers(_, _, _)
resolveMembers(m, ids, acc) ==
    IF ids = <<>> THEN [err |-> FALSE, members |-> acc]
    ELSE LET got == GetMemberAgeKey(m.Members, Head(ids)) IN
         IF ~got.found THEN [err |-> TRUE, members |-> <<>>]
         ELSE resolveMembers(m, Tail(ids),
                             Append(acc, [ID |-> Head(ids), AgeKey |-> got.key]))

\* GetScopeMembers with the unknown IDs of the scope silently left out.
GetScopeMembers_SkipUnknown(m, scopeName) ==
    LET hits == {n \in 1..Len(m.Scopes) : m.Scopes[n].Name = scopeName}
        first == CHOOSE n \in hits : \A k \in hits : n <= k
        known == SelectSeq(m.Scopes[first].Members,
                           LAMBDA id : GetMemberAgeKey(m.Members, id).found)
    IN  [err |-> FALSE,
         members |-> [n \in 1..Len(known) |->
                        [ID |-> known[n],
                         AgeKey |-> GetMemberAgeKey(m.Members, known[n]).key]]]

\* GetScopeMembers: the first scope named scopeName, its member IDs resolved.
GetScopeMembers(m, scopeName) ==
    LET hits == {n \in 1..Len(m.Scopes) : m.Scopes[n].Name = scopeName} IN
    IF hits = {} THEN [err |-> TRUE, members |-> <<>>]
    ELSE LET first == CHOOSE n \in hits : \A k \in hits : n <= k IN
         resolveMembers(m, m.Scopes[first].Members, <<>>)

(***************************************************************************)
(* Planner (planner.go).                                                   *)
(***************************************************************************)
ActionEncrypt == "encrypt"
ActionReencrypt == "re-encrypt"
ActionSkip == "skip"

Action(type, file, scope, recipients, description) ==
    [Type |-> type, File |-> file, Scope |-> scope,
     Recipients |-> recipients, Description |-> description]

\* filepath.Match on the names and patterns of this model.
Match(pattern, name) ==
    CASE pattern = "a*"     -> name = "a.yaml"
      [] pattern = "*"      -> TRUE
      [] OTHER              -> FALSE

BadPattern(pattern) == pattern = "["

\* filepath.Glob without the sort: the names come in directory order, which differs
\* between the first call of the session and the later ones.
Glob_Unsorted(pattern, fsys) ==
    LET names == SelectSeq(PathOrder, LAMBDA p : Exists(fsys[p]) /\ Match(pattern, p)) IN
    IF op = "none" THEN names
    ELSE [n \in 1..Len(names) |-> names[Len(names) + 1 - n]]

\* filepath.Glob: the existing names that match, files and directories alike, sorted.
Glob(pattern, fsys) ==
    SelectSeq(PathOrder, LAMBDA p : Exists(fsys[p]) /\ Match(pattern, p))

\* shouldIncludeFile without the look-up in seen.
shouldIncludeFile_NoSeen(filePath, seen, fsys) ==
    IF fsys[filePath].kind = "dir" THEN FALSE ELSE TRUE

shouldIncludeFile(filePath, seen, fsys) ==
    IF filePath \in seen THEN FALSE
    ELSE IF fsys[filePath].kind = "dir" THEN FALSE
    ELSE TRUE

\* The loop of findFilesForPattern over the matches of one pattern.
RECURSIVE includeMatches(_, _, _, _)
includeMatches(matches, seen, fsys, acc) ==
    IF matches = <<>> THEN [files |-> acc, seen |-> seen]
    ELSE IF shouldIncludeFile(Head(matches), seen, fsys)
         THEN includeMatches(Tail(matches), seen \cup {Head(matches)}, fsys,
                             Append(acc, Head(matches)))
         ELSE includeMatches(Tail(matches), seen, fsys, acc)

findFilesForPattern(pattern, seen, fsys) ==
    IF BadPattern(pattern) THEN [err |-> TRUE, files |-> <<>>, seen |-> seen]
    ELSE LET r == includeMatches(Glob(pattern, fsys), seen, fsys, <<>>) IN
         [err |-> FALSE, files |-> r.files, seen |-> r.seen]

RECURSIVE findFrom(_, _, _, _)
findFrom(patterns, seen, fsys, acc) ==
    IF patterns = <<>> THEN [err |-> FALSE, files |-> acc]
    ELSE LET r == findFilesForPattern(Head(patterns), seen, fsys) IN
         IF r.err THEN [err |-> TRUE, files |-> <<>>]
         ELSE findFrom(Tail(patterns), r.seen, fsys, acc \o r.files)

findMatchingFiles(patterns, fsys) == findFrom(patterns, {}, fsys, <<>>)

\* isSOPSFile when os.ReadFile returns an error.
isSOPSFile_ReadFails(file, fsys) == FALSE

\* isSOPSFile: the file is readable and its content holds one of
\* "sops:", "\"sops\"", "lastmodified", "mac".
isSOPSFile(file, fsys) ==
    /\ fsys[file].kind \notin {"absent", "dir"}
    /\ fsys[file].mark

\* createSkipActions that stops one file short.
createSkipActions_OffByOne(fileList, scopeName) ==
    [n \in 1..(Len(fileList) - 1) |->
        Action(ActionSkip, fileList[n], scopeName, <<>>, "No members in scope")]

createSkipActions(fileList, scopeName) ==
    [n \in 1..Len(fileList) |->
        Action(ActionSkip, fileList[n], scopeName, <<>>, "No members in scope")]

extractAgeKeys(members) == [n \in 1..Len(members) |-> members[n].AgeKey]

createFileActions(fileList, scopeName, recipients, fsys) ==
    [n \in 1..Len(fileList) |->
        IF isSOPSFile(fileList[n], fsys)
        THEN Action(ActionReencrypt, fileList[n], scopeName, recipients,
                    "Re-encrypt with updated team")
        ELSE Action(ActionEncrypt, fileList[n], scopeName, recipients,
                    "Encrypt with current team")]

\* planScopeActions taking the recipients from the whole team, as EncryptFile does.
planScopeActions_WholeTeam(scope, m, fsys) ==
    LET found == findMatchingFiles(scope.Patterns, fsys) IN
    IF found.err THEN [err |-> "pattern", actions |-> <<>>]
    ELSE LET got == GetScopeMembers(m, scope.Name) IN
         IF got.err THEN [err |-> "member", actions |-> <<>>]
         ELSE IF Len(got.members) = 0
              THEN [err |-> "none", actions |-> createSkipActions(found.files, scope.Name)]
              ELSE [err |-> "none",
                    actions |-> createFileActions(found.files, scope.Name,
                                                  extractAgeKeys(m.Members), fsys)]

planScopeActions(scope, m, fsys) ==
    LET found == findMatchingFiles(scope.Patterns, fsys) IN
    IF found.err THEN [err |-> "pattern", actions |-> <<>>]
    ELSE LET got == GetScopeMembers(m, scope.Name) IN
         IF got.err THEN [err |-> "member", actions |-> <<>>]
         ELSE IF Len(got.members) = 0
              THEN [err |-> "none", actions |-> createSkipActions(found.files, scope.Name)]
              ELSE [err |-> "none",
                    actions |-> createFileActions(found.files, scope.Name,
                                                  extractAgeKeys(got.members), fsys)]

\* The loop of ComputePlan with files already planned by an earlier scope left out.
RECURSIVE planFrom_GlobalDedup(_, _, _, _)
planFrom_GlobalDedup(scopes, m, fsys, acc) ==
    IF scopes = <<>> THEN [err |-> "none", Actions |-> acc]
    ELSE LET r == planScopeActions(Head(scopes), m, fsys) IN
         IF r.err # "none" THEN [err |-> r.err, Actions |-> <<>>]
         ELSE planFrom_GlobalDedup(
                  Tail(scopes), m, fsys,
                  acc \o SelectSeq(r.actions,
                                   LAMBDA a : \A k \in 1..Len(acc) : acc[k].File # a.File))

RECURSIVE planFrom(_, _, _, _)
planFrom(scopes, m, fsys, acc) ==
    IF scopes = <<>> THEN [err |-> "none", Actions |-> acc]
    ELSE LET r == planScopeActions(Head(scopes), m, fsys) IN
         IF r.err # "none" THEN [err |-> r.err, Actions |-> <<>>]
         ELSE planFrom(Tail(scopes), m, fsys, acc \o r.actions)

\* ComputePlan: (plan, nil) or (nil, err).  err is "none", "pattern" or "member".
ComputePlan(m, fsys) == planFrom(m.Scopes, m, fsys, <<>>)

NoPlan == [err |-> "unset", Actions |-> <<>>]

(***************************************************************************)
(* State shared by the specifications.                                     *)
(***************************************************************************)
NoBackupDir == [exists |-> FALSE, slots |-> [n \in {} |-> Absent]]
NoKeyFiles == [p \in {} |-> NoKey]
NoPath == <<>>
NoArgs == <<>>
NoOutput == [lines |-> <<>>, expired |-> 0, expiring |-> 0]

Snapshot ==
    [files |-> files, manifestFile |-> manifestFile, keyFiles |-> keyFiles, plan |-> plan,
     gitignore |-> gitignore]

\* The process has just started: nothing loaded, nothing returned.
Idle ==
    /\ op = "none"
    /\ pc = "idle"
    /\ force = FALSE
    /\ manifest = NoManifest
    /\ plan = NoPlan
    /\ i = 0
    /\ executedActions = 0
    /\ backupDir = NoBackupDir
    /\ execResult = "none"
    /\ result = "none"
    /\ output = NoOutput
    /\ args = NoArgs
    /\ keyPath = NoPath
    /\ newKey = NoKey
    /\ pre = Snapshot
    /\ trace = <<>>

\* The scope lists of k scopes named ScopeNames[1..k], patterns and members
\* drawn from the given lists.
ScopeSeqs(patternLists, memberLists) ==
    UNION {{[n \in 1..k |-> Scope(ScopeNames[n], f[n][1], f[n][2])] :
                f \in [1..k -> patternLists \X memberLists]} :
           k \in 0..Len(ScopeNames)}

\* Members of the manifests explored: IDs are unique (AddMember keeps them so).
Alice(created) == Member("alice", PublicKey(1), created)
Bob(created) == Member("bob", PublicKey(2), created)

(***************************************************************************)
(* SopsManager.Plan (manager.go): load the manifest, compute the plan.     *)
(***************************************************************************)
Plan ==
    /\ pc = "idle"
    /\ op' = "plan"
    /\ manifest' = manifestFile
    /\ plan' = ComputePlan(manifestFile, files)
    /\ result' = IF plan'.err = "none" THEN "ok" ELSE "error"
    /\ pc' = "done"
    /\ UNCHANGED <<manifestFile, files, keyFiles, keyBackup, gitignore, now, output, args,
                   force, i,
                   executedActions, backupDir, execResult, keyPath, newKey, pre, trace>>

\* SopsManager.Plan invoked once more, after an earlier Plan or Apply has returned.
PlanAgain ==
    /\ pc = "done"
    /\ op \in {"plan", "apply"}
    /\ op' = "replan"
    /\ manifest' = manifestFile
    /\ plan' = ComputePlan(manifestFile, files)
    /\ result' = IF plan'.err = "none" THEN "ok" ELSE "error"
    /\ pre' = Snapshot
    /\ UNCHANGED <<manifestFile, files, keyFiles, keyBackup, gitignore, now, output, args,
                   pc, force, i,
                   executedActions, backupDir, execResult, keyPath, newKey, trace>>

PlanMembers == {<<Alice(0)>>, <<Bob(0), Alice(0)>>}
PlanFiles ==
    {[p \in Paths |-> CASE p = "a.yaml" -> a [] p = "b.yaml" -> b [] OTHER -> Dir] :
        a \in {Plain(FALSE), Sops(<<PublicKey(1)>>, 1)},
        b \in {Absent, Plain(TRUE)}}

InitPlan ==
    /\ manifestFile \in
         {Manifest(ms, sc, 180) :
             ms \in PlanMembers,
             sc \in ScopeSeqs(SeqsUpTo(Patterns, MaxPatterns), MemberLists)}
    /\ files \in PlanFiles
    /\ keyFiles = NoKeyFiles
    /\ keyBackup = NoKey
    /\ now = 0
    /\ gitignore = TRUE
    /\ Idle

NextPlan == Plan

SpecPlan == InitPlan /\ [][NextPlan]_vars

\* Plan, then Plan again on the same manifest and directory.
NextPlanTwice == Plan \/ PlanAgain

SpecPlanTwice == InitPlan /\ [][NextPlanTwice]_vars

(***************************************************************************)
(* Executor (executor.go).  Execute is entered with pc = "execute" by      *)
(* Apply and by RotateKey (reencryptAllFiles), with the plan in plan.      *)
(* Indices are those of the Go slice: action i is plan.Actions[i + 1].     *)
(***************************************************************************)
Event(e, at) == [e |-> e, at |-> at]

ActionAt(n) == plan.Actions[n + 1]

\* The external tool's result on success: the file encrypted for the recipients, with
\* fresh bytes (encryptFile; the rename at the end of reencryptFile).
Encrypted(c, recipients) == Sops(recipients, c.rev + 1)

\* What a failed invocation can leave in the target.  sops -e --in-place may have begun
\* to write; reencryptFile works on <file>.tmp and leaves the target alone.
AfterFailure(action, c) ==
    IF action.Type = ActionEncrypt THEN {c, Partial(c.rev + 1)} ELSE {c}

\* The stages of reencryptFile an error can come from, and whether the decrypted
\* content was written to <file>.tmp before it.
ReencryptStages == {"decrypt", "write", "encrypt", "rename"}
WritesPlaintext(stage) == stage \in {"write", "encrypt", "rename"}

\* rollback(actions, backupDir): actions is plan.Actions[:n]; every non-skip action whose
\* slot "<index>-<base>" exists is copied back, in index order; a failed copy (failAt)
\* ends the loop with an error.
RECURSIVE rollbackFrom(_, _, _, _, _, _)
rollbackFrom(k, n, slots, fsys, failAt, restored) ==
    IF k >= n THEN [files |-> fsys, restored |-> restored, err |-> FALSE]
    ELSE IF ActionAt(k).Type = ActionSkip
         THEN rollbackFrom(k + 1, n, slots, fsys, failAt, restored)
    ELSE IF k \in DOMAIN slots
         THEN IF k = failAt
              THEN [files |-> fsys, restored |-> restored, err |-> TRUE]
              ELSE rollbackFrom(k + 1, n, slots,
                                [fsys EXCEPT ![ActionAt(k).File] = slots[k]],
                                failAt, Append(restored, k))
    ELSE rollbackFrom(k + 1, n, slots, fsys, failAt, restored)

rollback(n, slots, fsys, failAt) == rollbackFrom(0, n, slots, fsys, failAt, <<>>)

\* The length of the slice handleExecutionError hands to rollback:
\* plan.Actions[:executedActions+1].
RollbackLen(executed, failedAt) == executed + 1

ExecVars == <<i, executedActions, backupDir, execResult, files, trace>>
NotExecVars == <<manifestFile, keyFiles, keyBackup, gitignore, now, output, args,
                 op, force, manifest, plan,
                 result, keyPath, newKey, pre>>

\* Execute with an empty plan: "No actions to execute", nil, no backup directory.
ExecuteEmpty ==
    /\ pc = "execute"
    /\ Len(plan.Actions) = 0
    /\ execResult' = "nil"
    /\ pc' = "executed"
    /\ UNCHANGED <<i, executedActions, backupDir, files, trace, NotExecVars>>

\* setupBackupDirectory succeeded; the loop starts.
ExecuteSetup ==
    /\ pc = "execute"
    /\ Len(plan.Actions) > 0
    /\ backupDir' = [exists |-> TRUE, slots |-> backupDir.slots]
    /\ i' = 0
    /\ executedActions' = 0
    /\ pc' = "loop"
    /\ UNCHANGED <<execResult, files, trace, NotExecVars>>

\* setupBackupDirectory failed: Execute returns the error.
ExecuteSetupFails ==
    /\ pc = "execute"
    /\ Len(plan.Actions) > 0
    /\ execResult' = "mkdir"
    /\ pc' = "executed"
    /\ UNCHANGED <<i, executedActions, backupDir, files, trace, NotExecVars>>

\* The loop meets a Skip action: continue.
LoopSkip ==
    /\ pc = "loop"
    /\ i < Len(plan.Actions)
    /\ ActionAt(i).Type = ActionSkip
    /\ i' = i + 1
    /\ UNCHANGED <<pc, executedActions, backupDir, execResult, files, trace, NotExecVars>>

\* backupFileIfExists: the target, if it exists, is copied to slot i.
LoopBackup ==
    /\ pc = "loop"
    /\ i < Len(plan.Actions)
    /\ ActionAt(i).Type # ActionSkip
    /\ LET file == ActionAt(i).File IN
       IF Exists(files[file])
       THEN /\ backupDir' = [backupDir EXCEPT !.slots = (i :> files[file]) @@ @]
            /\ trace' = Append(trace, Event("backup", i))
       ELSE UNCHANGED <<backupDir, trace>>
    /\ pc' = "invoke"
    /\ UNCHANGED <<i, executedActions, execResult, files, NotExecVars>>

\* backupFileIfExists: the copy failed; Execute returns that error at once.
LoopBackupFails ==
    /\ pc = "loop"
    /\ i < Len(plan.Actions)
    /\ ActionAt(i).Type # ActionSkip
    /\ Exists(files[ActionAt(i).File])
    /\ execResult' = "backup"
    /\ pc' = "cleanup"
    /\ UNCHANGED <<i, executedActions, backupDir, files, trace, NotExecVars>>

\* executeAction succeeded: the tool replaced the file.
InvokeSucceeds ==
    /\ pc = "invoke"
    /\ LET a == ActionAt(i) IN
       /\ Exists(files[a.File])
       /\ files' = [files EXCEPT ![a.File] = Encrypted(@, a.Recipients)]
       /\ trace' = Append(IF a.Type = ActionReencrypt
                          THEN Append(trace, Event("plaintext", i)) ELSE trace,
                          Event("invoked", i))
    /\ executedActions' = executedActions + 1
    /\ i' = i + 1
    /\ pc' = "loop"
    /\ UNCHANGED <<backupDir, execResult, NotExecVars>>

\* executeAction failed, and the loop goes on to the next action.
InvokeFails_Continue ==
    /\ pc = "invoke"
    /\ trace' = Append(trace, Event("failed", i))
    /\ i' = i + 1
    /\ pc' = "loop"
    /\ UNCHANGED <<executedActions, backupDir, execResult, files, NotExecVars>>

\* executeAction failed: handleExecutionError is entered.
InvokeFails ==
    /\ pc = "invoke"
    /\ LET a == ActionAt(i) IN
       /\ \E c \in AfterFailure(a, files[a.File]) :
             files' = [files EXCEPT ![a.File] = c]
       /\ \E stage \in ReencryptStages :
             trace' = Append(IF a.Type = ActionReencrypt /\ WritesPlaintext(stage)
                             THEN Append(trace, Event("plaintext", i)) ELSE trace,
                             Event("failed", i))
    /\ pc' = "rollback"
    /\ UNCHANGED <<i, executedActions, backupDir, execResult, NotExecVars>>

\* handleExecutionError: rollback, then the error ("execution failed", or
\* "execution failed and rollback failed" when a restoring copy failed).
HandleExecutionError ==
    /\ pc = "rollback"
    /\ \E failAt \in {-1} \cup DOMAIN backupDir.slots :
          LET n == RollbackLen(executedActions, i)
              r == rollback(n, backupDir.slots, files, failAt)
          IN  /\ failAt # -1 => (failAt < n /\ r.err)
              /\ files' = r.files
              /\ trace' = trace \o [k \in 1..Len(r.restored) |->
                                        Event("restored", r.restored[k])]
                                \o (IF r.err THEN <<Event("restorefailed", failAt)>>
                                    ELSE <<>>)
              /\ execResult' = IF r.err THEN "rollback" ELSE "tool"
    /\ pc' = "cleanup"
    /\ UNCHANGED <<i, executedActions, backupDir, NotExecVars>>

\* The loop is over: "Successfully applied", nil.
LoopEnds ==
    /\ pc = "loop"
    /\ i = Len(plan.Actions)
    /\ execResult' = "nil"
    /\ pc' = "cleanup"
    /\ UNCHANGED <<i, executedActions, backupDir, files, trace, NotExecVars>>

\* Execute returning without the deferred os.RemoveAll(backupDir).
ExecuteCleanup_NoRemoveAll ==
    /\ pc = "cleanup"
    /\ pc' = "executed"
    /\ UNCHANGED <<i, executedActions, backupDir, trace, execResult, files, NotExecVars>>

\* The deferred os.RemoveAll(backupDir), as Execute returns.
ExecuteCleanup ==
    /\ pc = "cleanup"
    /\ backupDir' = NoBackupDir
    /\ trace' = Append(trace, Event("removed", i))
    /\ pc' = "executed"
    /\ UNCHANGED <<i, executedActions, execResult, files, NotExecVars>>

\* The steps of Execute on a plan that has actions.
ExecuteActions ==
    \/ ExecuteSetup
    \/ ExecuteSetupFails
    \/ LoopSkip
    \/ LoopBackup
    \/ LoopBackupFails
    \/ InvokeSucceeds
    \/ InvokeFails
    \/ HandleExecutionError
    \/ LoopEnds
    \/ ExecuteCleanup

Execute == ExecuteEmpty \/ ExecuteActions

(***************************************************************************)
(* SopsManager.Apply (manager.go), confirmation given (--yes).             *)
(***************************************************************************)
Apply ==
    /\ pc = "idle"
    /\ op' = "apply"
    /\ manifest' = manifestFile
    /\ plan' = ComputePlan(manifestFile, files)
    /\ pre' = Snapshot
    /\ IF plan'.err # "none" THEN result' = "plan" /\ pc' = "done"
       ELSE IF Len(plan'.Actions) = 0 THEN result' = "ok" /\ pc' = "done"
       ELSE result' = "none" /\ pc' = "execute"
    /\ UNCHANGED <<manifestFile, files, keyFiles, keyBackup, gitignore, now, output, args,
                   force, i,
                   executedActions, backupDir, execResult, keyPath, newKey, trace>>

\* return executor.Execute(plan)
ApplyReturns ==
    /\ op = "apply"
    /\ pc = "executed"
    /\ result' = IF execResult = "nil" THEN "ok" ELSE "execute"
    /\ pc' = "done"
    /\ UNCHANGED <<manifestFile, files, keyFiles, keyBackup, gitignore, now, output, args,
                   op, force, manifest,
                   plan, i, executedActions, backupDir, execResult, keyPath, newKey,
                   pre, trace>>

\* The manifests and directories Apply is explored on.
ApplyPatternLists == {<<"*">>, <<"a*">>, <<"a*", "*">>}
ApplyMembers == {<<Alice(0)>>, <<Alice(0), Bob(0)>>}
ApplyFiles ==
    {[p \in Paths |-> CASE p = "a.yaml" -> a [] p = "b.yaml" -> b [] OTHER -> Dir] :
        a \in {Plain(FALSE), Sops(<<PublicKey(1)>>, 1)},
        b \in {Absent, Plain(FALSE), Plain(TRUE)}}

InitApply ==
    /\ manifestFile \in
         {Manifest(ms, sc, 180) :
             ms \in ApplyMembers, sc \in ScopeSeqs(ApplyPatternLists, MemberLists)}
    /\ files \in ApplyFiles
    /\ keyFiles = NoKeyFiles
    /\ keyBackup = NoKey
    /\ now = 0
    /\ gitignore = TRUE
    /\ Idle

\* Apply returns before Execute when the plan has no actions.
NextApply == Apply \/ ExecuteActions \/ ApplyReturns

SpecApply == InitApply /\ [][NextApply]_vars

\* Apply, then Plan on what Apply left.
NextRoundTrip == NextApply \/ PlanAgain

SpecRoundTrip == InitApply /\ [][NextRoundTrip]_vars

(***************************************************************************)
(* Key rotation (manager.go): SopsManager.RotateKey.                       *)
(***************************************************************************)
MaxKey == 4             \* age-keygen produces one of the private keys 1..MaxKey
HashSpace == 3          \* distinct values of the truncated key hash in a file name

\* The floor checkKeyExpiry puts under max_key_age_days.
MinMaxKeyAgeDays == 180

\* Time is counted in hours; time.Duration(days) * 24 * time.Hour.
Day == 24
Days(n) == n * Day

\* getCurrentMemberID: the name of the operating-system user.
CurrentUser == "alice"

Keys == 1..MaxKey

\* keyHashFromPrivateKey: the first hex digits of the SHA-1 of the private key; two
\* private keys can share them.
keyHashFromPrivateKey(k) == k % HashSpace
\* keyPathForPrivateKey: .secrets/key-<hash>.txt
keyPathForPrivateKey(k) == <<".secrets", keyHashFromPrivateKey(k)>>
\* The key files in the order filepath.Glob(".secrets/key-*.txt") lists them.
KeyPathOrder == [h \in 1..HashSpace |-> <<".secrets", h - 1>>]
KeyPaths == {KeyPathOrder[h] : h \in 1..HashSpace}

\* findKeyForPublicKey: the first key file whose private key derives the identity;
\* NoPath stands for the error "no private key found".
findKeyForPublicKey(targetPublicKey, keys) ==
    LET matches == SelectSeq(KeyPathOrder,
                             LAMBDA p : keys[p] # NoKey
                                        /\ PublicKey(keys[p]) = targetPublicKey)
    IN  IF matches = <<>> THEN NoPath ELSE matches[1]

\* findMemberByID falling back on the first member of the team.
findMemberByID_FirstMember(m, userID) ==
    LET hits == {n \in 1..Len(m.Members) : m.Members[n].ID = userID} IN
    IF hits # {} THEN CHOOSE n \in hits : \A k \in hits : n <= k
    ELSE IF Len(m.Members) = 0 THEN 0 ELSE 1

\* findMemberByID: the index of the first member with that ID, 0 for nil.
findMemberByID(m, userID) ==
    LET hits == {n \in 1..Len(m.Members) : m.Members[n].ID = userID} IN
    IF hits = {} THEN 0 ELSE CHOOSE n \in hits : \A k \in hits : n <= k

Max(a, b) == IF a >= b THEN a ELSE b

\* checkKeyExpiry without the floor under maxAgeDays.
checkKeyExpiry_NoFloor(member, maxAgeDays, t) == t - member.Created > Days(maxAgeDays)

\* checkKeyExpiry: TRUE for the error "key has expired".
checkKeyExpiry(member, maxAgeDays, t) ==
    t - member.Created > Days(Max(maxAgeDays, MinMaxKeyAgeDays))

\* handleRotationError that leaves the key directory as it finds it.
handleRotationError_NoRestore(keys, path, backup) == keys

\* handleRotationError: when <keyPath>.backup exists its bytes are written to keyPath.
handleRotationError(keys, path, backup) ==
    IF backup # NoKey THEN [keys EXCEPT ![path] = backup] ELSE keys

RotateUnchanged ==
    <<i, executedActions, backupDir, execResult, files, trace, now,
      output, args, gitignore>>

\* RotateKey up to the backup: prepareKeyRotation, then findKeyForPublicKey.
RotateKey(f) ==
    /\ pc = "idle"
    /\ op' = "rotate"
    /\ force' = f
    /\ pre' = Snapshot
    /\ manifest' = manifestFile
    /\ LET n == findMemberByID(manifestFile, CurrentUser) IN
       IF n = 0
       THEN result' = "notfound" /\ pc' = "done" /\ keyPath' = NoPath
       ELSE IF ~f /\ checkKeyExpiry(manifestFile.Members[n],
                                    manifestFile.Settings.MaxKeyAgeDays, now)
       THEN result' = "expired" /\ pc' = "done" /\ keyPath' = NoPath
       ELSE LET path == findKeyForPublicKey(manifestFile.Members[n].AgeKey, keyFiles) IN
            /\ keyPath' = path
            /\ IF path = NoPath THEN result' = "nokey" /\ pc' = "done"
               ELSE result' = "none" /\ pc' = "backup"
    /\ UNCHANGED <<manifestFile, keyFiles, keyBackup, plan, newKey, RotateUnchanged>>

\* backupCurrentKey: the key file is copied to <keyPath>.backup.
BackupCurrentKey ==
    /\ pc = "backup"
    /\ keyBackup' = keyFiles[keyPath]
    /\ pc' = "generate"
    /\ UNCHANGED <<manifestFile, keyFiles, op, force, manifest, plan, result, keyPath,
                   newKey, pre, RotateUnchanged>>

\* backupCurrentKey failed: RotateKey returns its error.
BackupCurrentKeyFails ==
    /\ pc = "backup"
    /\ result' = "backup"
    /\ pc' = "done"
    /\ UNCHANGED <<manifestFile, keyFiles, keyBackup, op, force, manifest, plan, keyPath,
                   newKey, pre, RotateUnchanged>>

\* generateNewAgeKey: age-keygen wrote a key, renamed to the path of its hash.
GenerateNewAgeKey ==
    /\ pc = "generate"
    /\ \E k \in Keys :
          /\ \A n \in 1..Len(manifest.Members) : manifest.Members[n].AgeKey # PublicKey(k)
          /\ newKey' = k
          /\ keyFiles' = [keyFiles EXCEPT ![keyPathForPrivateKey(k)] = k]
    /\ pc' = "remove"
    /\ UNCHANGED <<manifestFile, keyBackup, op, force, manifest, plan, result, keyPath,
                   pre, RotateUnchanged>>

\* generateNewAgeKey failed: handleRotationError, and the deferred removal of the backup.
GenerateNewAgeKeyFails ==
    /\ pc = "generate"
    /\ keyFiles' = handleRotationError(keyFiles, keyPath, keyBackup)
    /\ keyBackup' = NoKey
    /\ result' = "generate"
    /\ pc' = "done"
    /\ UNCHANGED <<manifestFile, op, force, manifest, plan, keyPath, newKey, pre,
                   RotateUnchanged>>

\* os.Remove(keyPath), whose failure is only a warning; then the member in memory
\* takes the new identity and Created = time.Now().
RemoveOldKey ==
    /\ pc = "remove"
    /\ \E removed \in BOOLEAN :
          keyFiles' = IF removed THEN [keyFiles EXCEPT ![keyPath] = NoKey] ELSE keyFiles
    /\ LET n == findMemberByID(manifest, CurrentUser) IN
       manifest' = [manifest EXCEPT !.Members[n].AgeKey = PublicKey(newKey),
                                    !.Members[n].Created = now]
    /\ pc' = "save"
    /\ UNCHANGED <<manifestFile, keyBackup, op, force, plan, result, keyPath, newKey,
                   pre, RotateUnchanged>>

\* manifest.Save(configPath) succeeded.
SaveManifest ==
    /\ pc = "save"
    /\ manifestFile' = manifest
    /\ pc' = "reencrypt"
    /\ UNCHANGED <<keyFiles, keyBackup, op, force, manifest, plan, result, keyPath,
                   newKey, pre, RotateUnchanged>>

\* What a failed Manifest.Save can leave: os.WriteFile failed to open the file, or
\* truncated it and failed to write (an empty document, which loads as the zero value).
EmptyManifestFile == Manifest(<<>>, <<>>, 0)
AfterFailedSave(persisted) == {persisted, EmptyManifestFile}

\* manifest.Save failed.
SaveManifestFails ==
    /\ pc = "save"
    /\ manifestFile' \in AfterFailedSave(manifestFile)
    /\ keyFiles' = handleRotationError(keyFiles, keyPath, keyBackup)
    /\ keyBackup' = NoKey
    /\ result' = "save"
    /\ pc' = "done"
    /\ UNCHANGED <<op, force, manifest, plan, keyPath, newKey, pre,
                   RotateUnchanged>>

\* reencryptAllFiles: ComputePlan on the manifest in memory, then Execute.
ReencryptAllFiles ==
    /\ pc = "reencrypt"
    /\ plan' = ComputePlan(manifest, files)
    /\ IF plan'.err # "none"
       THEN /\ keyFiles' = handleRotationError(keyFiles, keyPath, keyBackup)
            /\ keyBackup' = NoKey
            /\ result' = "plan"
            /\ pc' = "done"
       ELSE /\ pc' = "execute"
            /\ UNCHANGED <<keyFiles, keyBackup, result>>
    /\ UNCHANGED <<manifestFile, op, force, manifest, keyPath, newKey, pre,
                   RotateUnchanged>>

\* Execute returned: success, or handleRotationError("failed to re-encrypt files");
\* either way the deferred os.Remove(backupPath) runs.
RotateReturns ==
    /\ op = "rotate"
    /\ pc = "executed"
    /\ IF execResult = "nil"
       THEN result' = "ok" /\ UNCHANGED keyFiles
       ELSE /\ result' = "execute"
            /\ keyFiles' = handleRotationError(keyFiles, keyPath, keyBackup)
    /\ keyBackup' = NoKey
    /\ pc' = "done"
    /\ UNCHANGED <<manifestFile, op, force, manifest, plan, keyPath, newKey, pre,
                   RotateUnchanged>>

\* The manifests, directories and key directories RotateKey is explored on.
Today == Days(1000)
KeyAges == {Days(10), Days(180), Days(180) + 1, Days(400)}
MaxKeyAgeDaysValues == {90, 365}
RotatePatternLists == {<<"*">>, <<"[">>}
RotateMembers(created) ==
    {<<Alice(created)>>, <<Alice(created), Bob(created)>>, <<Bob(created)>>}
RotateFiles ==
    {[p \in Paths |-> CASE p = "a.yaml" -> a [] p = "b.yaml" -> b [] OTHER -> Dir] :
        <<a, b>> \in {<<Plain(FALSE), Plain(FALSE)>>,
                      <<Sops(<<PublicKey(1)>>, 1), Sops(<<PublicKey(1)>>, 1)>>}}
RotateKeyFiles ==
    {[p \in KeyPaths |-> NoKey],
     [p \in KeyPaths |-> IF p = keyPathForPrivateKey(1) THEN 1 ELSE NoKey]}

InitRotate ==
    /\ now = Today
    /\ manifestFile \in
         {Manifest(ms, sc, maxAge) :
             ms \in UNION {RotateMembers(Today - age) : age \in KeyAges},
             sc \in ScopeSeqs(RotatePatternLists, MemberLists),
             maxAge \in MaxKeyAgeDaysValues}
    /\ files \in RotateFiles
    /\ keyFiles \in RotateKeyFiles
    /\ keyBackup = NoKey
    /\ gitignore = TRUE
    /\ Idle

NextRotate ==
    \/ \E f \in BOOLEAN : RotateKey(f)
    \/ BackupCurrentKey
    \/ BackupCurrentKeyFails
    \/ GenerateNewAgeKey
    \/ GenerateNewAgeKeyFails
    \/ RemoveOldKey
    \/ SaveManifest
    \/ SaveManifestFails
    \/ ReencryptAllFiles
    \/ Execute
    \/ RotateReturns

SpecRotate == InitRotate /\ [][NextRotate]_vars

\* What a failed os.WriteFile(keyPath, data) of handleRotationError can leave at
\* keyPath: the file as it was (it could not be opened), or an empty file, which holds
\* no key.
AfterFailedRestore(keys, path) == {keys, [keys EXCEPT ![path] = NoKey]}

\* An error return of RotateKey whose handleRotationError could not write the backup
\* back to keyPath: the error of os.WriteFile is discarded, and the error returned is
\* "<msg>: <err>" of the step that failed, as when the key was restored.
RotationErrorRestoreFails ==
    /\ op = "rotate"
    /\ keyBackup # NoKey
    /\ \/ /\ pc = "generate"
          /\ result' = "generate"
          /\ UNCHANGED <<manifestFile, plan>>
       \/ /\ pc = "save"
          /\ result' = "save"
          /\ manifestFile' \in AfterFailedSave(manifestFile)
          /\ UNCHANGED plan
       \/ /\ pc = "reencrypt"
          /\ plan' = ComputePlan(manifest, files)
          /\ plan'.err # "none"
          /\ result' = "plan"
          /\ UNCHANGED manifestFile
       \/ /\ pc = "executed"
          /\ execResult # "nil"
          /\ result' = "execute"
          /\ UNCHANGED <<manifestFile, plan>>
    /\ keyFiles' \in AfterFailedRestore(keyFiles, keyPath)
    /\ trace' = Append(trace, Event("restorefailed", -1))
    /\ keyBackup' = NoKey
    /\ pc' = "done"
    /\ UNCHANGED <<op, force, manifest, keyPath, newKey, pre, i, executedActions,
                   backupDir, execResult, files, now, output, args, gitignore>>

\* RotateKey where the restoring write of the error recovery can fail too.
NextRotateRecovery == NextRotate \/ RotationErrorRestoreFails

SpecRotateRecovery == InitRotate /\ [][NextRotateRecovery]_vars

(***************************************************************************)
(* The key audit: CheckKeyExpiry of SopsManager (manager.go) and of        *)
(* TeamService (service.go).                                               *)
(***************************************************************************)
\* The warning window before expiry: 14 * 24 * time.Hour.
WarningWindowDays == 14

\* int(d.Hours() / 24): whole days, truncated toward zero.
WholeDays(d) == IF d >= 0 THEN d \div Day ELSE -((-d) \div Day)

\* What verbose adds to a line: the member's key file, or "NOT FOUND".
keyInfo(member, verbose, keys) ==
    IF ~verbose THEN <<>>
    ELSE IF findKeyForPublicKey(member.AgeKey, keys) = NoPath THEN <<"NOT FOUND">>
    ELSE findKeyForPublicKey(member.AgeKey, keys)

Line(id, status, days, info, warnings, errors) ==
    [ID |-> id, status |-> status, days |-> days, keyInfo |-> info,
     warnings |-> warnings, errors |-> errors]

\* checkMemberKeyStatus with the warning window closed at its lower end.
checkMemberKeyStatus_InclusiveWindow(member, maxAgeDays, t, info) ==
    LET age == t - member.Created
        maxAge == Days(maxAgeDays)
        warningThreshold == maxAge - Days(WarningWindowDays)
    IN  IF age > maxAge
        THEN Line(member.ID, "expired", WholeDays(age - maxAge), info, 0, 1)
        ELSE IF age >= warningThreshold
        THEN Line(member.ID, "expiring", WholeDays(maxAge - age), info, 1, 0)
        ELSE Line(member.ID, "ok", WholeDays(age), info, 0, 0)

\* checkMemberKeyStatus: the line printed for one member and the (warnings, errors)
\* it returns.
checkMemberKeyStatus(member, maxAgeDays, t, info) ==
    LET age == t - member.Created
        maxAge == Days(maxAgeDays)
        warningThreshold == maxAge - Days(WarningWindowDays)
    IN  IF age > maxAge
        THEN Line(member.ID, "expired", WholeDays(age - maxAge), info, 0, 1)
        ELSE IF age > warningThreshold
        THEN Line(member.ID, "expiring", WholeDays(maxAge - age), info, 1, 0)
        ELSE Line(member.ID, "ok", WholeDays(age), info, 0, 0)

\* The loop over manifest.Members, summing warnings and errors.
RECURSIVE auditFrom(_, _, _, _, _, _)
auditFrom(members, maxAgeDays, t, verbose, keys, acc) ==
    IF members = <<>> THEN acc
    ELSE LET line == checkMemberKeyStatus(Head(members), maxAgeDays, t,
                                          keyInfo(Head(members), verbose, keys))
         IN  auditFrom(Tail(members), maxAgeDays, t, verbose, keys,
                       [lines |-> Append(acc.lines, line),
                        expired |-> acc.expired + line.errors,
                        expiring |-> acc.expiring + line.warnings])

AuditUnchanged ==
    <<manifestFile, files, keyFiles, keyBackup, gitignore, now, args, force, plan, i, executedActions,
      backupDir, execResult, keyPath, newKey, pre, trace>>

\* SopsManager.CheckKeyExpiry(verbose).
CheckKeyExpiry(verbose) ==
    /\ pc = "idle"
    /\ op' = "audit"
    /\ manifest' = manifestFile
    /\ output' = auditFrom(manifestFile.Members,
                           Max(manifestFile.Settings.MaxKeyAgeDays, MinMaxKeyAgeDays),
                           now, verbose, keyFiles, NoOutput)
    /\ result' = "ok"
    /\ pc' = "done"
    /\ UNCHANGED AuditUnchanged

\* TeamService.CheckKeyExpiry: only a value <= 0 is replaced by the default.
teamServiceMaxAgeDays(maxAgeDays) ==
    IF maxAgeDays <= 0 THEN MinMaxKeyAgeDays ELSE maxAgeDays

TeamServiceCheckKeyExpiry ==
    /\ pc = "idle"
    /\ op' = "teamaudit"
    /\ manifest' = manifestFile
    /\ output' = auditFrom(manifestFile.Members,
                           teamServiceMaxAgeDays(manifestFile.Settings.MaxKeyAgeDays),
                           now, FALSE, keyFiles, NoOutput)
    /\ result' = "ok"
    /\ pc' = "done"
    /\ UNCHANGED AuditUnchanged

\* The manifests the audit is explored on: up to three members, of these ages.
AuditIDs == <<"alice", "bob", "carol">>
AuditAges == {Days(30), Days(100), Days(166), Days(166) + 1, Days(170), Days(170) + 1,
              Days(180), Days(180) + 1, Days(200)}
AuditMaxKeyAgeDays == {-1, 0, 90, 180, 200}
AuditMembers ==
    UNION {{[n \in 1..k |-> Member(AuditIDs[n], PublicKey(n), Today - age[n])] :
                age \in [1..k -> AuditAges]} : k \in 0..Len(AuditIDs)}

InitAudit ==
    /\ now = Today
    /\ manifestFile \in
         {Manifest(ms, <<Scope("default", <<"*">>, <<>>)>>, maxAge) :
             ms \in AuditMembers, maxAge \in AuditMaxKeyAgeDays}
    /\ files = [p \in Paths |-> Absent]
    /\ keyFiles \in RotateKeyFiles
    /\ keyBackup = NoKey
    /\ gitignore = TRUE
    /\ Idle

NextAudit ==
    \/ \E verbose \in BOOLEAN : CheckKeyExpiry(verbose)
    \/ TeamServiceCheckKeyExpiry

SpecAudit == InitAudit /\ [][NextAudit]_vars

(***************************************************************************)
(* Team membership (manager.go): AddMember and RemoveMember.  Each is one  *)
(* invocation of the command line; one can follow another.                 *)
(***************************************************************************)
\* slices.Contains(memberIDs, id) always answering no.
memberExists_Never(m, id) == FALSE

\* slices.Contains(memberIDs, id)
memberExists(m, id) == \E n \in 1..Len(m.Members) : m.Members[n].ID = id

\* append(s[:j], s[j+1:]...), j counted from 1.
RemoveAt(s, j) == [n \in 1..(Len(s) - 1) |-> IF n < j THEN s[n] ELSE s[n + 1]]

\* The loop of AddMember over the scopes: the first scope named "default" gets the ID.
addToDefaultScope(scopes, id) ==
    LET hits == {n \in 1..Len(scopes) : scopes[n].Name = "default"} IN
    IF hits = {} THEN scopes
    ELSE LET first == CHOOSE n \in hits : \A k \in hits : n <= k IN
         [scopes EXCEPT ![first].Members = Append(@, id)]

\* removeMemberFromManifest: the first member with that ID is cut out.
removeMemberFromManifest(m, id) ==
    LET n == findMemberByID(m, id) IN
    IF n = 0 THEN [err |-> TRUE, manifest |-> m]
    ELSE [err |-> FALSE, manifest |-> [m EXCEPT !.Members = RemoveAt(@, n)]]

\* removeMemberFromScope: the first occurrence of the ID is cut out, then break.
removeMemberFromScope(scope, id) ==
    LET hits == {j \in 1..Len(scope.Members) : scope.Members[j] = id} IN
    IF hits = {} THEN scope
    ELSE LET first == CHOOSE j \in hits : \A k \in hits : j <= k IN
         [scope EXCEPT !.Members = RemoveAt(@, first)]

\* removeMemberFromAllScopes that leaves the scopes as they are.
removeMemberFromAllScopes_None(m, id) == m

removeMemberFromAllScopes(m, id) ==
    [m EXCEPT !.Scopes = [n \in 1..Len(m.Scopes) |-> removeMemberFromScope(m.Scopes[n], id)]]

MemberOpCanStart == pc = "idle" \/ (pc = "done" /\ op \in {"add", "remove"})
MemberOpUnchanged ==
    <<files, keyFiles, keyBackup, gitignore, now, output, force, plan, i, executedActions,
      backupDir, execResult, keyPath, newKey, trace>>

\* SopsManager.AddMember(id, ageKey).
AddMember(id, ageKey) ==
    /\ MemberOpCanStart
    /\ op' = "add"
    /\ args' = <<id, ageKey>>
    /\ pre' = Snapshot
    /\ pc' = "done"
    /\ IF memberExists(manifestFile, id)
       THEN /\ result' = "exists"
            /\ manifest' = manifestFile
            /\ UNCHANGED manifestFile
       ELSE /\ manifest' =
                 [manifestFile EXCEPT
                    !.Members = Append(@, Member(id, ageKey, now)),
                    !.Scopes = addToDefaultScope(@, id)]
            /\ \/ result' = "ok" /\ manifestFile' = manifest'
               \/ result' = "save" /\ manifestFile' \in AfterFailedSave(manifestFile)
    /\ UNCHANGED MemberOpUnchanged

\* SopsManager.RemoveMember(id).
RemoveMember(id) ==
    /\ MemberOpCanStart
    /\ op' = "remove"
    /\ args' = <<id>>
    /\ pre' = Snapshot
    /\ pc' = "done"
    /\ LET r == removeMemberFromManifest(manifestFile, id) IN
       IF r.err
       THEN /\ result' = "notfound"
            /\ manifest' = manifestFile
            /\ UNCHANGED manifestFile
       ELSE /\ manifest' = removeMemberFromAllScopes(r.manifest, id)
            /\ \/ result' = "ok" /\ manifestFile' = manifest'
               \/ result' = "save" /\ manifestFile' \in AfterFailedSave(manifestFile)
    /\ UNCHANGED MemberOpUnchanged

\* The manifests and arguments the membership commands are explored on.  A scope may
\* list a member more than once; every ID it lists is a member.
MemberArgs == {"alice", "bob"}
KeyArgs == {PublicKey(3)}
MembershipScopeLists == {<<>>, <<"alice">>, <<"alice", "bob">>, <<"bob", "alice", "bob">>}
MembershipMembers ==
    {<<>>, <<Alice(Today - Days(10))>>,
     <<Alice(Today - Days(10)), Bob(Today - Days(10))>>}

InitMembership ==
    /\ now = Today
    /\ manifestFile \in
         {Manifest(ms, sc, 180) :
             ms \in MembershipMembers,
             sc \in ScopeSeqs({<<"*">>}, MembershipScopeLists)}
    /\ \A n \in 1..Len(manifestFile.Scopes) :
          \A k \in 1..Len(manifestFile.Scopes[n].Members) :
              memberExists(manifestFile, manifestFile.Scopes[n].Members[k])
    /\ files = [p \in Paths |-> Absent]
    /\ keyFiles = NoKeyFiles
    /\ keyBackup = NoKey
    /\ gitignore = TRUE
    /\ Idle

NextMembership ==
    \/ \E id \in MemberArgs, ageKey \in KeyArgs : AddMember(id, ageKey)
    \/ \E id \in MemberArgs : RemoveMember(id)

SpecMembership == InitMembership /\ [][NextMembership]_vars

(***************************************************************************)
(* Two processes in the same directory, each running AddMember once.  Here *)
(* pc, manifest, args and result are functions of the process, and the     *)
(* steps of AddMember that touch the manifest file are taken one by one:   *)
(* LoadManifest reads it; Manifest.Save is os.WriteFile, which opens the   *)
(* file with O_TRUNC and then writes the bytes at its beginning.  No step  *)
(* takes a lock.                                                           *)
(***************************************************************************)
Procs == {1, 2}
Other(p) == CHOOSE q \in Procs : q # p

\* A manifest file whose bytes are those of one write followed by the tail of a longer
\* one: it does not parse.
GarbledManifestFile ==
    [Members |-> <<>>, Scopes |-> <<>>, Settings |-> [MaxKeyAgeDays |-> 0],
     garbled |-> TRUE]

\* The write of os.WriteFile that reads the file back and keeps the members it finds.
WriteFile_Merge(data, onDisk) ==
    {[data EXCEPT !.Members =
         SelectSeq(onDisk.Members, LAMBDA m : ~memberExists(data, m.ID)) \o @]}

\* The write of os.WriteFile, after the file was opened and truncated: the bytes go to
\* the beginning of the file.  When another process has written since the truncation,
\* what lies beyond the new bytes stays.
WriteFile(data, onDisk) ==
    IF onDisk = EmptyManifestFile THEN {data} ELSE {data, GarbledManifestFile}

ConcurrentUnchanged ==
    <<files, keyFiles, keyBackup, gitignore, now, output, op, force, plan, i,
      executedActions, backupDir, execResult, keyPath, newKey, pre, args>>

\* AddMember of process p: LoadManifest.
AddMemberLoads(p) ==
    /\ pc[p] = "idle"
    /\ IF manifestFile = GarbledManifestFile
       THEN /\ result' = [result EXCEPT ![p] = "load"]
            /\ pc' = [pc EXCEPT ![p] = "done"]
            /\ UNCHANGED manifest
       ELSE /\ manifest' = [manifest EXCEPT ![p] = manifestFile]
            /\ pc' = [pc EXCEPT ![p] = "loaded"]
            /\ UNCHANGED result
    /\ trace' = Append(trace, Event("load", p))
    /\ UNCHANGED <<manifestFile, ConcurrentUnchanged>>

\* AddMember of process p: the duplicate check and the change of the manifest in memory.
AddMemberMutates(p) ==
    /\ pc[p] = "loaded"
    /\ IF memberExists(manifest[p], args[p][1])
       THEN /\ result' = [result EXCEPT ![p] = "exists"]
            /\ pc' = [pc EXCEPT ![p] = "done"]
            /\ UNCHANGED manifest
       ELSE /\ manifest' =
                 [manifest EXCEPT
                    ![p].Members = Append(@, Member(args[p][1], args[p][2], now)),
                    ![p].Scopes = addToDefaultScope(@, args[p][1])]
            /\ pc' = [pc EXCEPT ![p] = "save"]
            /\ UNCHANGED result
    /\ UNCHANGED <<manifestFile, trace, ConcurrentUnchanged>>

\* Manifest.Save of process p: os.WriteFile opens the file, which truncates it.
SaveOpens(p) ==
    /\ pc[p] = "save"
    /\ manifestFile' = EmptyManifestFile
    /\ pc' = [pc EXCEPT ![p] = "write"]
    /\ trace' = Append(trace, Event("truncate", p))
    /\ UNCHANGED <<manifest, result, ConcurrentUnchanged>>

\* Manifest.Save of process p: the file could not be opened.
SaveOpenFails(p) ==
    /\ pc[p] = "save"
    /\ result' = [result EXCEPT ![p] = "save"]
    /\ pc' = [pc EXCEPT ![p] = "done"]
    /\ UNCHANGED <<manifestFile, manifest, trace, ConcurrentUnchanged>>

\* Manifest.Save of process p: the bytes are written, and AddMember returns nil.
SaveWrites(p) ==
    /\ pc[p] = "write"
    /\ manifestFile' \in WriteFile(manifest[p], manifestFile)
    /\ result' = [result EXCEPT ![p] = "ok"]
    /\ pc' = [pc EXCEPT ![p] = "done"]
    /\ trace' = Append(trace, Event("write", p))
    /\ UNCHANGED <<manifest, ConcurrentUnchanged>>

\* Manifest.Save of process p: the write failed.
SaveWriteFails(p) ==
    /\ pc[p] = "write"
    /\ result' = [result EXCEPT ![p] = "save"]
    /\ pc' = [pc EXCEPT ![p] = "done"]
    /\ UNCHANGED <<manifestFile, manifest, trace, ConcurrentUnchanged>>

\* What the two processes were asked to add, and the manifests they start from.
Carol(created) == Member("carol", PublicKey(3), created)
ConcurrentArgs ==
    {[p \in Procs |-> IF p = 1 THEN a ELSE b] :
        <<a, b>> \in {<<<<"bob", PublicKey(2)>>, <<"carol", PublicKey(3)>>>>,
                      <<<<"carol", PublicKey(3)>>, <<"bob", PublicKey(2)>>>>}}
ConcurrentManifestFiles ==
    {Manifest(ms, sc, 180) :
        ms \in {<<Alice(Today - Days(10))>>,
                <<Alice(Today - Days(10)), Bob(Today - Days(10))>>},
        sc \in {<<>>, <<Scope("default", <<"*">>, <<"alice">>)>>,
                <<Scope("restricted", <<"a*">>, <<>>),
                  Scope("default", <<"*">>, <<"alice">>)>>}}

InitConcurrent ==
    /\ now = Today
    /\ manifestFile \in ConcurrentManifestFiles
    /\ files = [p \in Paths |-> Absent]
    /\ keyFiles = NoKeyFiles
    /\ keyBackup = NoKey
    /\ gitignore = TRUE
    /\ op = "add"
    /\ pc = [p \in Procs |-> "idle"]
    /\ manifest = [p \in Procs |-> NoManifest]
    /\ result = [p \in Procs |-> "none"]
    /\ args \in ConcurrentArgs
    /\ force = FALSE
    /\ plan = NoPlan
    /\ i = 0
    /\ executedActions = 0
    /\ backupDir = NoBackupDir
    /\ execResult = "none"
    /\ output = NoOutput
    /\ keyPath = NoPath
    /\ newKey = NoKey
    /\ pre = Snapshot
    /\ trace = <<>>

NextConcurrent ==
    \E p \in Procs :
        \/ AddMemberLoads(p)
        \/ AddMemberMutates(p)
        \/ SaveOpens(p)
        \/ SaveOpenFails(p)
        \/ SaveWrites(p)
        \/ SaveWriteFails(p)

SpecConcurrent == InitConcurrent /\ [][NextConcurrent]_vars

(***************************************************************************)
(* SopsManager.Init (manager.go).                                          *)
(***************************************************************************)
\* os.Stat(s.configPath): NoManifest stands for "no sopsistry.yaml".
ManifestFileExists(persisted) == persisted # NoManifest

\* os.MkdirAll(s.secretsDir): an existing directory is left as it is.
MkdirAll(keys) == IF DOMAIN keys = {} THEN [p \in KeyPaths |-> NoKey] ELSE keys

\* findExistingKey that finds no key file.
findExistingKey_None(keys) == NoPath

\* findExistingKey: the first key file filepath.Glob lists, NoPath when there is none.
findExistingKey(keys) ==
    LET matches == SelectSeq(KeyPathOrder, LAMBDA p : keys[p] # NoKey) IN
    IF matches = <<>> THEN NoPath ELSE matches[1]

createInitialManifest(memberID, publicKey, created) ==
    Manifest(<<Member(memberID, publicKey, created)>>,
             <<Scope("default", <<"*.sops.yaml", "*.sops.json", "secrets/*">>,
                     <<memberID>>)>>,
             180)

InitCanStart == pc = "idle" \/ (pc = "done" /\ op = "init")
InitUnchanged ==
    <<files, keyBackup, now, output, args, plan, i, executedActions, backupDir,
      execResult, keyPath, newKey, trace>>

\* Init(force).  failure names the step that fails, "none" when every step succeeds.
Init(f) ==
    /\ InitCanStart
    /\ op' = "init"
    /\ force' = f
    /\ pre' = Snapshot
    /\ pc' = "done"
    /\ IF ~f /\ ManifestFileExists(manifestFile)
       THEN /\ result' = "exists"
            /\ UNCHANGED <<manifestFile, manifest, keyFiles, gitignore>>
       ELSE \E failure \in {"none", "mkdir", "gitignore", "generate", "save"} :
            \E k \in Keys :
              LET dir == MkdirAll(keyFiles)
                  existingKey == findExistingKey(dir)
                  generated == [dir EXCEPT ![keyPathForPrivateKey(k)] = k]
                  publicKey == IF existingKey # NoPath THEN PublicKey(dir[existingKey])
                               ELSE PublicKey(k)
                  m == createInitialManifest(CurrentUser, publicKey, now)
              IN
              CASE failure = "mkdir" ->
                     /\ result' = "mkdir"
                     /\ UNCHANGED <<manifestFile, manifest, keyFiles, gitignore>>
                [] failure = "gitignore" ->
                     /\ ~gitignore
                     /\ result' = "gitignore"
                     /\ keyFiles' = dir
                     /\ UNCHANGED <<manifestFile, manifest, gitignore>>
                [] failure = "generate" ->
                     /\ existingKey = NoPath
                     /\ result' = "generate"
                     /\ keyFiles' = dir
                     /\ gitignore' = TRUE
                     /\ UNCHANGED <<manifestFile, manifest>>
                [] OTHER ->
                     /\ keyFiles' = IF existingKey # NoPath THEN dir ELSE generated
                     /\ gitignore' = TRUE
                     /\ manifest' = m
                     /\ IF failure = "save"
                        THEN /\ result' = "save"
                             /\ manifestFile' \in AfterFailedSave(manifestFile)
                        ELSE /\ result' = "ok"
                             /\ manifestFile' = m
    /\ UNCHANGED InitUnchanged

\* The project directories Init is explored on.
InitManifestFiles ==
    {NoManifest,
     Manifest(<<Alice(Today - Days(10)), Bob(Today - Days(10))>>,
              <<Scope("default", <<"*">>, <<"alice", "bob">>)>>, 365)}
InitKeyFiles ==
    {NoKeyFiles, [p \in KeyPaths |-> NoKey]}
    \cup {[p \in KeyPaths |-> IF p \in ps THEN held[p] ELSE NoKey] :
             ps \in SUBSET KeyPaths \ {{}},
             held \in {[p \in KeyPaths |-> CHOOSE k \in Keys : keyPathForPrivateKey(k) = p]}}

InitInit ==
    /\ now = Today
    /\ manifestFile \in InitManifestFiles
    /\ files = [p \in Paths |-> Absent]
    /\ keyFiles \in InitKeyFiles
    /\ keyBackup = NoKey
    /\ gitignore \in BOOLEAN
    /\ Idle

NextInit == \E f \in BOOLEAN : Init(f)

SpecInit == InitInit /\ [][NextInit]_vars

(***************************************************************************)
(* A project from Init on: one invocation of the command line after        *)
(* another, each AddMember, RemoveMember or RotateKey.                     *)
(***************************************************************************)
\* The command has returned and the next one is started: a new process, with nothing
\* in memory; the manifest, the files and the keys are what the last one left.
NewInvocation ==
    /\ pc = "done"
    /\ op' = "none"
    /\ pc' = "idle"
    /\ force' = FALSE
    /\ manifest' = NoManifest
    /\ plan' = NoPlan
    /\ i' = 0
    /\ executedActions' = 0
    /\ backupDir' = NoBackupDir
    /\ execResult' = "none"
    /\ result' = "none"
    /\ output' = NoOutput
    /\ args' = NoArgs
    /\ keyPath' = NoPath
    /\ newKey' = NoKey
    /\ pre' = [Snapshot EXCEPT !.plan = NoPlan]
    /\ trace' = <<>>
    /\ UNCHANGED <<manifestFile, files, keyFiles, keyBackup, gitignore, now>>

\* The members the commands are asked to add or remove.
LifecycleArgs == {"alice", "bob", "carol"}

\* What Init leaves in a new project: the manifest of createInitialManifest for the
\* acting user, whose key is the one key file.
InitLifecycle ==
    /\ now = Today
    /\ \E k \in Keys :
          /\ manifestFile = createInitialManifest(CurrentUser, PublicKey(k), Today)
          /\ keyFiles = [p \in KeyPaths |-> IF p = keyPathForPrivateKey(k) THEN k ELSE NoKey]
    /\ files = [p \in Paths |-> Absent]
    /\ keyBackup = NoKey
    /\ gitignore = TRUE
    /\ Idle

NextLifecycle ==
    \/ \E id \in LifecycleArgs, ageKey \in KeyArgs : AddMember(id, ageKey)
    \/ \E id \in LifecycleArgs : RemoveMember(id)
    \/ \E f \in BOOLEAN : RotateKey(f)
    \/ BackupCurrentKey
    \/ BackupCurrentKeyFails
    \/ GenerateNewAgeKey
    \/ GenerateNewAgeKeyFails
    \/ RemoveOldKey
    \/ SaveManifest
    \/ SaveManifestFails
    \/ ReencryptAllFiles
    \/ ExecuteEmpty
    \/ RotateReturns
    \/ NewInvocation

SpecLifecycle == InitLifecycle /\ [][NextLifecycle]_vars

(***************************************************************************)
(* Properties of the planner.                                              *)
(***************************************************************************)
Planned == op = "plan" /\ pc = "done"

\* What the manifest says, read off the data model rather than computed by the code.
MemberIDs(m) == {m.Members[n].ID : n \in 1..Len(m.Members)}
IdentityOf(m, id) == (CHOOSE mem \in SeqToSet(m.Members) : mem.ID = id).AgeKey
ScopeIdentities(m, scope) ==
    [n \in 1..Len(scope.Members) |-> IdentityOf(m, scope.Members[n])]
IsRegularFile(p) == files[p].kind \notin {"absent", "dir"}
MatchedFiles(scope) ==
    {p \in Paths : IsRegularFile(p)
                   /\ \E n \in 1..Len(scope.Patterns) : Match(scope.Patterns[n], p)}
ActionsOf(scopeName) == SelectSeq(plan.Actions, LAMBDA a : a.Scope = scopeName)
ScopesOf(m) == SeqToSet(m.Scopes)

\* C3: every action of a scope with at least one member carries exactly the public
\* identities of the members the scope lists, in listed order, and so no identity of
\* a member the scope does not list.
C3_RecipientsAreScopeMembers ==
    (Planned /\ plan.err = "none") =>
        \A scope \in ScopesOf(manifestFile) :
            Len(scope.Members) >= 1 =>
                \A n \in 1..Len(ActionsOf(scope.Name)) :
                    LET a == ActionsOf(scope.Name)[n] IN
                    /\ a.Recipients = ScopeIdentities(manifestFile, scope)
                    /\ \A r \in SeqToSet(a.Recipients) :
                          \E id \in SeqToSet(scope.Members) :
                              r = IdentityOf(manifestFile, id)

\* C3 witness: a plan whose scope lists two members in another order than the manifest
\* does, while a member of the team is outside the other scope.
C3_Witness ==
    /\ Planned /\ plan.err = "none"
    /\ \E scope \in ScopesOf(manifestFile) :
          /\ scope.Members = <<"alice", "bob">>
          /\ manifestFile.Members[1].ID = "bob"
          /\ Len(ActionsOf(scope.Name)) >= 1
    /\ \E scope \in ScopesOf(manifestFile) :
          /\ scope.Members = <<"alice">>
          /\ Len(ActionsOf(scope.Name)) >= 1

HasUnknownMember(m) ==
    \E scope \in ScopesOf(m) : \E id \in SeqToSet(scope.Members) : id \notin MemberIDs(m)

\* C8: a scope that lists an ID absent from Manifest.Members makes ComputePlan return an
\* error and no plan, whatever the other scopes hold and whatever the scope matches.
C8_UnknownMemberIsFatal ==
    (Planned /\ HasUnknownMember(manifestFile)) =>
        /\ plan.err # "none"
        /\ plan.Actions = <<>>
        /\ result = "error"

\* C8 witness: the first scope resolved and matched files, the second lists an unknown
\* member and matches no file, and ComputePlan failed on that member.
C8_Witness ==
    /\ Planned /\ plan.err = "member"
    /\ Len(manifestFile.Scopes) = 2
    /\ manifestFile.Scopes[1].Members = <<"alice">>
    /\ MatchedFiles(manifestFile.Scopes[1]) # {}
    /\ manifestFile.Scopes[2].Members = <<"alice", "bob">>
    /\ "bob" \notin MemberIDs(manifestFile)
    /\ MatchedFiles(manifestFile.Scopes[2]) = {}

\* C9: a scope with no members yields exactly one action per file its patterns match,
\* each a Skip with no recipients, and nothing else.
C9_EmptyScopeOnlySkips ==
    (Planned /\ plan.err = "none") =>
        \A scope \in ScopesOf(manifestFile) :
            Len(scope.Members) = 0 =>
                LET acts == ActionsOf(scope.Name) IN
                /\ \A n \in 1..Len(acts) :
                      /\ acts[n].Type = ActionSkip
                      /\ acts[n].Recipients = <<>>
                      /\ acts[n].File \in MatchedFiles(scope)
                /\ \A p \in MatchedFiles(scope) :
                      Cardinality({n \in 1..Len(acts) : acts[n].File = p}) = 1

\* C9 witness: a member-less scope whose patterns match two files, next to a scope
\* that has members.
C9_Witness ==
    /\ Planned /\ plan.err = "none"
    /\ \E scope \in ScopesOf(manifestFile) :
          /\ Len(scope.Members) = 0
          /\ Cardinality(MatchedFiles(scope)) = 2
          /\ Len(ActionsOf(scope.Name)) = 2
    /\ \E a \in SeqToSet(plan.Actions) : a.Type # ActionSkip

\* C10: the actions of one scope never name the same file twice and never a directory.
C10_NoDuplicateNoDirectory ==
    (Planned /\ plan.err = "none") =>
        \A scope \in ScopesOf(manifestFile) :
            LET acts == ActionsOf(scope.Name) IN
            /\ \A n, k \in 1..Len(acts) : acts[n].File = acts[k].File => n = k
            /\ \A n \in 1..Len(acts) : files[acts[n].File].kind # "dir"

\* C10 witness: a scope with two patterns that both match a.yaml, one of which also
\* matches a directory, planned into one action per file.
C10_Witness ==
    /\ Planned /\ plan.err = "none"
    /\ files["conf"].kind = "dir"
    /\ \E scope \in ScopesOf(manifestFile) :
          /\ scope.Patterns \in {<<"a*", "*">>, <<"*", "a*">>}
          /\ Cardinality(MatchedFiles(scope)) = 2
          /\ Len(ActionsOf(scope.Name)) = 2

(***************************************************************************)
(* Properties of Execute.                                                  *)
(***************************************************************************)
ExecuteReturned == pc \in {"executed", "done"} /\ execResult # "none"
Positions == 0..(Len(plan.Actions) - 1)
NonSkip(n) == ActionAt(n).Type # ActionSkip
Happened(e, n) == \E k \in 1..Len(trace) : trace[k] = Event(e, n)
RestoredPositions == {n \in Positions : Happened("restored", n)}

\* C1: Execute is all-or-nothing under failures of the external tool: on success every
\* non-skip action's file is in its new state; on an error every file that existed
\* before and was the target of an action executed so far has its pre-Execute bytes.
C1_ExecuteAllOrNothing ==
    ExecuteReturned =>
        /\ execResult = "nil" =>
              \A n \in Positions :
                  NonSkip(n) => /\ files[ActionAt(n).File].kind = "sops"
                                /\ files[ActionAt(n).File] # pre.files[ActionAt(n).File]
        /\ execResult = "tool" =>
              \A n \in Positions :
                  (n <= i /\ NonSkip(n) /\ Exists(pre.files[ActionAt(n).File]))
                      => files[ActionAt(n).File] = pre.files[ActionAt(n).File]

\* C2: on the tool's first failure, at position i, every non-skip action at positions
\* 0..i whose backup slot exists is restored from the slot of its own position, before
\* the error is returned.
C2_RollbackCoversUpToFailure ==
    (ExecuteReturned /\ execResult = "tool") =>
        RestoredPositions = {n \in Positions : n <= i /\ NonSkip(n) /\ Happened("backup", n)}

(***************************************************************************)
(* Properties of RotateKey.                                                *)
(***************************************************************************)
RotateReturned == op = "rotate" /\ pc = "done"

\* The acting member as the manifest recorded them when RotateKey began.
InTeam == \E mem \in SeqToSet(pre.manifestFile.Members) : mem.ID = CurrentUser
Acting == CHOOSE mem \in SeqToSet(pre.manifestFile.Members) : mem.ID = CurrentUser
KeyAge == now - Acting.Created
OverThreshold ==
    /\ KeyAge > Days(pre.manifestFile.Settings.MaxKeyAgeDays)
    /\ KeyAge > Days(MinMaxKeyAgeDays)
Untouched ==
    /\ manifestFile = pre.manifestFile
    /\ keyFiles = pre.keyFiles
    /\ keyBackup = NoKey

\* C4: RotateKey returns the expiry error exactly when force is unset and the acting
\* member's age exceeds max(MaxKeyAgeDays, floor); then the persisted manifest and the
\* key files are as before.  With force set it never returns the expiry error.
C4_ExpiryErrorExactlyWhenOverdue ==
    RotateReturned =>
        /\ (result = "expired") <=> (~force /\ InTeam /\ OverThreshold)
        /\ result = "expired" => Untouched
        /\ force => result # "expired"

\* C4 witness: without force, a key one hour over 180 days old under
\* max_key_age_days = 90 was refused as expired (the floor is the threshold).
C4_Witness ==
    /\ RotateReturned /\ ~force /\ result = "expired"
    /\ InTeam /\ KeyAge = Days(MinMaxKeyAgeDays) + 1
    /\ pre.manifestFile.Settings.MaxKeyAgeDays < MinMaxKeyAgeDays
    /\ \E p \in KeyPaths : keyFiles[p] # NoKey

\* C5: RotateKey(force=false) on a member whose age is at most the threshold leaves the
\* persisted manifest and every key file as they were.
C5_FreshKeyWithoutForceIsUntouched ==
    (RotateReturned /\ ~force /\ InTeam /\ ~OverThreshold) => Untouched

FailedAfterBackup == RotateReturned /\ result \in {"generate", "save", "plan", "execute"}

HasNewIdentity ==
    \E mem \in SeqToSet(manifestFile.Members) :
        /\ mem.ID = CurrentUser
        /\ mem.AgeKey = PublicKey(newKey)
        /\ mem.AgeKey # Acting.AgeKey
        /\ mem.Created = now

\* C7: a failure after the manifest was persisted (plan computation, or the tool
\* failing in Execute) leaves the persisted manifest with the member's new identity
\* and new Created while every file that was encrypted has its pre-rotation content;
\* a failure before the save leaves the persisted manifest unchanged.
C7_LateFailureKeepsManifestAndOldFiles ==
    RotateReturned =>
        /\ (result = "plan" \/ (result = "execute" /\ execResult = "tool")) =>
              /\ HasNewIdentity
              /\ \A p \in Paths : pre.files[p].kind = "sops" => files[p] = pre.files[p]
        /\ result = "generate" => manifestFile = pre.manifestFile

(***************************************************************************)
(* More properties of the planner.                                         *)
(***************************************************************************)
ScopeIndex(name) ==
    CHOOSE n \in 1..Len(manifestFile.Scopes) : manifestFile.Scopes[n].Name = name
PathIndex(p) == CHOOSE n \in 1..Len(PathOrder) : PathOrder[n] = p
\* The first pattern of the scope that matches the file.
FirstPattern(scope, p) ==
    CHOOSE n \in 1..Len(scope.Patterns) :
        /\ Match(scope.Patterns[n], p)
        /\ \A k \in 1..(n - 1) : ~Match(scope.Patterns[k], p)
ExpectedRecipients(scope) ==
    IF Len(scope.Members) = 0 THEN <<>> ELSE ScopeIdentities(manifestFile, scope)

\* C11: the plan lists the scopes' actions in manifest scope order and, within a scope,
\* in pattern order; every (scope, matched file) pair has exactly one action, carrying
\* that scope's recipients, so a file matched by two scopes has two actions.
C11_PlanIsConcatenationPerScope ==
    (Planned /\ plan.err = "none") =>
        LET acts == plan.Actions IN
        /\ \A n, k \in 1..Len(acts) :
              n < k =>
                /\ ScopeIndex(acts[n].Scope) <= ScopeIndex(acts[k].Scope)
                /\ acts[n].Scope = acts[k].Scope =>
                      LET scope == manifestFile.Scopes[ScopeIndex(acts[n].Scope)]
                          pn == FirstPattern(scope, acts[n].File)
                          pk == FirstPattern(scope, acts[k].File)
                      IN  \/ pn < pk
                          \/ pn = pk /\ PathIndex(acts[n].File) < PathIndex(acts[k].File)
        /\ \A n \in 1..Len(acts) :
              acts[n].File \in MatchedFiles(manifestFile.Scopes[ScopeIndex(acts[n].Scope)])
        /\ \A scope \in ScopesOf(manifestFile) :
              \A p \in MatchedFiles(scope) :
                  /\ Cardinality({n \in 1..Len(acts) :
                                     acts[n].Scope = scope.Name /\ acts[n].File = p}) = 1
                  /\ \A n \in 1..Len(acts) :
                        (acts[n].Scope = scope.Name /\ acts[n].File = p)
                            => acts[n].Recipients = ExpectedRecipients(scope)

\* C11 witness: a.yaml is matched by both scopes, which list different members, and the
\* plan holds two actions for it with different recipients, the first scope's first.
C11_Witness ==
    /\ Planned /\ plan.err = "none"
    /\ \E n, k \in 1..Len(plan.Actions) :
          /\ n < k
          /\ plan.Actions[n].File = "a.yaml" /\ plan.Actions[k].File = "a.yaml"
          /\ plan.Actions[n].Scope = "default" /\ plan.Actions[k].Scope = "restricted"
          /\ plan.Actions[n].Recipients # plan.Actions[k].Recipients
          /\ Len(plan.Actions[n].Recipients) = 2
    /\ Cardinality({n \in 1..Len(plan.Actions) : plan.Actions[n].File = "a.yaml"}) = 2

Replanned == op = "replan" /\ pc = "done"
ActionsFor(p, file) == {n \in 1..Len(p.Actions) : p.Actions[n].File = file}
MembersOfScope(name) == manifestFile.Scopes[ScopeIndex(name)].Members

\* C12: when Execute has succeeded, every file one of its Encrypt actions was applied
\* to is classified Reencrypt by the next ComputePlan on the same manifest: in the same
\* scope, and in every scope that has members; it is never classified Encrypt.
C12_EncryptThenPlanGivesReencrypt ==
    (Replanned /\ execResult = "nil") =>
        \A n \in 1..Len(pre.plan.Actions) :
            LET a == pre.plan.Actions[n] IN
            a.Type = ActionEncrypt =>
                /\ plan.err = "none"
                /\ \E k \in ActionsFor(plan, a.File) :
                      /\ plan.Actions[k].Scope = a.Scope
                      /\ plan.Actions[k].Type = ActionReencrypt
                /\ \A k \in ActionsFor(plan, a.File) :
                      /\ plan.Actions[k].Type # ActionEncrypt
                      /\ Len(MembersOfScope(plan.Actions[k].Scope)) > 0
                            => plan.Actions[k].Type = ActionReencrypt

\* C12 witness: Apply encrypted a plain file that held none of the tokens isSOPSFile
\* looks for, and the next plan lists it as Reencrypt.
C12_Witness ==
    /\ Replanned /\ execResult = "nil"
    /\ \E n \in 1..Len(pre.plan.Actions) :
          LET a == pre.plan.Actions[n] IN
          /\ a.Type = ActionEncrypt
          /\ Happened("invoked", n - 1)
          /\ pre.files[a.File].kind = "sops"
          /\ \E k \in ActionsFor(plan, a.File) : plan.Actions[k].Type = ActionReencrypt

Audited == op = "audit" /\ pc = "done"
AuditedByTeamService == op = "teamaudit" /\ pc = "done"
AgeOf(n) == now - manifestFile.Members[n].Created
EffectiveMaxAge == Days(Max(manifestFile.Settings.MaxKeyAgeDays, MinMaxKeyAgeDays))
\* The class of an age under a maximum age, as the policy words it.
ExpectedClass(age, maxAge) ==
    CASE age > maxAge -> "expired"
      [] maxAge - Days(WarningWindowDays) < age /\ age <= maxAge -> "expiring"
      [] OTHER -> "ok"
LinesWith(status) == {n \in 1..Len(output.lines) : output.lines[n].status = status}

\* C14: the audit reports every member once, in the class of its age (expired when
\* age > maxAge, expiring when maxAge - 14 days < age <= maxAge, ok otherwise), and its
\* two counts are the sizes of the classes.  With max_key_age_days = 180: 30 days is
\* ok, 170 days expires in 10 days, 200 days expired 20 days ago.
C14_AuditClassifiesByAge ==
    Audited =>
        /\ Len(output.lines) = Len(manifestFile.Members)
        /\ \A n \in 1..Len(output.lines) :
              LET line == output.lines[n] IN
              /\ line.ID = manifestFile.Members[n].ID
              /\ line.status = ExpectedClass(AgeOf(n), EffectiveMaxAge)
              /\ manifestFile.Settings.MaxKeyAgeDays = 180 =>
                    /\ AgeOf(n) = Days(30) => line.status = "ok"
                    /\ AgeOf(n) = Days(170) => (line.status = "expiring" /\ line.days = 10)
                    /\ AgeOf(n) = Days(200) => (line.status = "expired" /\ line.days = 20)
        /\ output.expired = Cardinality(LinesWith("expired"))
        /\ output.expiring = Cardinality(LinesWith("expiring"))

\* C14 witness: the audit of a fresh, an expiring and an expired member under
\* max_key_age_days = 180 counted one expired and one expiring key.
C14_Witness ==
    /\ Audited
    /\ manifestFile.Settings.MaxKeyAgeDays = 180
    /\ Len(output.lines) = 3
    /\ AgeOf(1) = Days(30) /\ AgeOf(2) = Days(170) /\ AgeOf(3) = Days(200)
    /\ output.expired = 1 /\ output.expiring = 1
    /\ output.lines[2].days = 10 /\ output.lines[3].days = 20

\* C15: under every configured value below 180 (1..179, zero, negative) the audit,
\* in either implementation, classifies every member as it would under 180.
C15_ConfiguredBelowFloorActsAsFloor ==
    ((Audited \/ AuditedByTeamService)
        /\ manifestFile.Settings.MaxKeyAgeDays < MinMaxKeyAgeDays) =>
            \A n \in 1..Len(output.lines) :
                output.lines[n].status = ExpectedClass(AgeOf(n), Days(MinMaxKeyAgeDays))

\* C16: when the acting identity is the ID of no member of the manifest, RotateKey,
\* with or without force, returns "not found in team" and leaves the persisted
\* manifest, the key files and the working directory as they were.
C16_UnknownActorIsRefused ==
    (RotateReturned /\ ~InTeam) =>
        /\ result = "notfound"
        /\ Untouched
        /\ files = pre.files

\* C16 witness: RotateKey with force, on a team that does not list the acting user
\* while a key file is present, returned the error.
C16_Witness ==
    /\ RotateReturned /\ force /\ ~InTeam
    /\ Len(manifestFile.Members) >= 1
    /\ \E p \in KeyPaths : keyFiles[p] # NoKey
    /\ result = "notfound"

(***************************************************************************)
(* Properties of AddMember and RemoveMember.                               *)
(***************************************************************************)
Added == op = "add" /\ pc = "done"
Removed == op = "remove" /\ pc = "done"
UniqueIDs(m) == \A n, k \in 1..Len(m.Members) : m.Members[n].ID = m.Members[k].ID => n = k
DefaultScopes(m) == {n \in 1..Len(m.Scopes) : m.Scopes[n].Name = "default"}
WasMember == \E mem \in SeqToSet(pre.manifestFile.Members) : mem.ID = args[1]

\* What C17 says of the manifest in every case.
AddRejectsDuplicateAndAppendsOne ==
    /\ UniqueIDs(manifestFile)
    /\ (Added /\ WasMember) =>
          (result = "exists" /\ manifestFile = pre.manifestFile)
    /\ (Added /\ result = "ok") =>
          /\ ~WasMember
          /\ manifestFile.Members =
                Append(pre.manifestFile.Members, Member(args[1], args[2], now))

C18_RemovedMemberIsGoneEverywhere ==
    /\ (Removed /\ result = "ok") =>
          /\ args[1] \notin MemberIDs(manifestFile)
          /\ \A scope \in ScopesOf(manifestFile) : args[1] \notin SeqToSet(scope.Members)
    /\ (Removed /\ ~WasMember) =>
          (result = "notfound" /\ manifestFile = pre.manifestFile)

(***************************************************************************)
(* Properties of Init.                                                     *)
(***************************************************************************)
InitReturned == op = "init" /\ pc = "done"
KeysHeld(keys) == {p \in DOMAIN keys : keys[p] # NoKey}

\* C19: Init without force on an existing manifest is an error and changes nothing
\* (manifest, .secrets directory, key files, .gitignore).  Init with force is never
\* refused for the existing manifest; when it returns nil the manifest is the initial
\* one for the acting user; it never deletes or replaces a key file that was there,
\* and when there was one it generates no key and the manifest names that key.
C19_InitRefusesOrPreservesKeys ==
    InitReturned =>
        /\ (~force /\ ManifestFileExists(pre.manifestFile)) =>
              /\ result = "exists"
              /\ manifestFile = pre.manifestFile
              /\ keyFiles = pre.keyFiles
              /\ gitignore = pre.gitignore
        /\ force =>
              /\ result # "exists"
              /\ \A p \in KeysHeld(pre.keyFiles) : keyFiles[p] = pre.keyFiles[p]
              /\ KeysHeld(pre.keyFiles) # {} => KeysHeld(keyFiles) = KeysHeld(pre.keyFiles)
              /\ result = "ok" =>
                    /\ Len(manifestFile.Members) = 1
                    /\ manifestFile.Members[1].ID = CurrentUser
                    /\ manifestFile.Members[1].Created = now
                    /\ manifestFile.Scopes[1].Members = <<CurrentUser>>
                    /\ \E p \in KeysHeld(keyFiles) :
                          manifestFile.Members[1].AgeKey = PublicKey(keyFiles[p])
                    /\ KeysHeld(pre.keyFiles) # {} =>
                          \E p \in KeysHeld(pre.keyFiles) :
                              manifestFile.Members[1].AgeKey = PublicKey(pre.keyFiles[p])

\* C19 witness: Init with force overwrote a manifest of two members while a key file
\* was present, and the new manifest names that key.
C19_Witness ==
    /\ InitReturned /\ force /\ result = "ok"
    /\ Len(pre.manifestFile.Members) = 2
    /\ manifestFile # pre.manifestFile
    /\ KeysHeld(pre.keyFiles) # {}
    /\ keyFiles = pre.keyFiles

(***************************************************************************)
(* More properties of Execute.                                             *)
(***************************************************************************)
EventIndices(e) == {k \in 1..Len(trace) : trace[k].e = e}

RestoreFailedAt(positions) ==
    \E k \in 1..Len(trace) : trace[k].e = "restorefailed" /\ trace[k].at \in positions

\* Execute's error names the failed restoration next to the tool's error:
\* "execution failed and rollback failed: ... (original error: ...)".
ExecuteReportsRestoreFailure ==
    (ExecuteReturned /\ RestoreFailedAt(Positions)) => execResult = "rollback"

\* C21: when a restoring copy of Execute's rollback fails, the error Execute returns
\* reports it together with the tool's failure; when the restoring write of the key
\* file fails in RotateKey's recovery, the error RotateKey returns reports it together
\* with the failure of the step.
C21_RestoreFailureIsReported ==
    /\ ExecuteReportsRestoreFailure
    /\ (RotateReturned /\ RestoreFailedAt({-1})) =>
          result \notin {"generate", "save", "plan", "execute"}

(***************************************************************************)
(* Properties of the actions of Execute.                                   *)
(***************************************************************************)
\* C22: while Execute performs a Reencrypt action, the decrypted content of the file
\* is written to no file on disk, at any step of the action and however it ends.
C22_ReencryptWritesNoPlaintext ==
    \A n \in Positions :
        ActionAt(n).Type = ActionReencrypt => ~Happened("plaintext", n)

(***************************************************************************)
(* Properties of the key files during RotateKey.                           *)
(***************************************************************************)
KeyGenerated == op = "rotate" /\ newKey # NoKey
NewKeyPath == keyPathForPrivateKey(newKey)

\* C23: the path the generated key is moved to is not that of a key file that held
\* another key; it is not the path of the old key, and once the old key file has been
\* removed the generated key is still in its file.
C23_NewKeyPathIsFresh ==
    KeyGenerated =>
        /\ pre.keyFiles[NewKeyPath] \in {NoKey, newKey}
        /\ NewKeyPath # keyPath
        /\ pc = "save" => keyFiles[NewKeyPath] = newKey

(***************************************************************************)
(* Properties of two concurrent AddMember invocations.                     *)
(***************************************************************************)
BothAdded == \A p \in Procs : pc[p] = "done" /\ result[p] = "ok"
EventIndex(e, p) == CHOOSE k \in 1..Len(trace) : trace[k] = Event(e, p)
LastWriter == CHOOSE p \in Procs : EventIndex("write", Other(p)) < EventIndex("write", p)
Holds(m, id) == \E n \in 1..Len(m.Members) : m.Members[n].ID = id
\* The member process p appends, and whether a manifest holds it.
Appended(p) == Member(args[p][1], args[p][2], now)
HoldsAppended(m, p) == \E n \in 1..Len(m.Members) : m.Members[n] = Appended(p)

\* C24: nothing keeps two AddMember invocations apart.  When both have returned nil,
\* the persisted manifest is the one the last writer held in memory (or the mix of the
\* two writes): it holds the last writer's member, and holds the other's only when the
\* last writer loaded the manifest after the other had written it.  So an interleaving
\* of the loads and saves leaves a manifest with one of the two members.
C24_LastWriteWins ==
    BothAdded =>
        LET w == LastWriter
            o == Other(w)
        IN  /\ manifestFile \in {manifest[w], GarbledManifestFile}
            /\ HoldsAppended(manifest[w], w)
            /\ HoldsAppended(manifest[w], o) =>
                  EventIndex("write", o) < EventIndex("load", w)

\* C24 witness: both invocations returned nil, both loaded before either wrote, and
\* the persisted manifest holds alice and one of the two new members.
C24_Witness ==
    /\ BothAdded
    /\ \A p, q \in Procs : EventIndex("load", p) < EventIndex("write", q)
    /\ manifestFile # GarbledManifestFile
    /\ Holds(manifestFile, "alice")
    /\ Cardinality({p \in Procs : HoldsAppended(manifestFile, p)}) = 1
    /\ Cardinality({p \in Procs : Holds(manifestFile, args[p][1])}) = 1

(***************************************************************************)
(* Properties of Execute when a backup copy fails.                         *)
(***************************************************************************)
\* C25: when the copy into the backup slot fails at position i, Execute returns an
\* error and every file an action before i modified has its pre-Execute bytes again.
C25_BackupFailureUndoesEarlierActions ==
    (pc \in {"cleanup", "executed", "done"} /\ execResult = "backup") =>
        \A n \in Positions :
            (n < i /\ NonSkip(n)) => files[ActionAt(n).File] = pre.files[ActionAt(n).File]

(***************************************************************************)
(* Properties of rollback on a file that two actions changed.              *)
(***************************************************************************)
\* C26: when two non-skip actions on the same file have both run and a later action
\* fails, the file has its pre-Execute bytes when Execute returns.
C26_TwiceChangedFileIsRestored ==
    (ExecuteReturned /\ execResult = "tool") =>
        \A n, k \in Positions :
            (/\ n < k /\ k < i
             /\ NonSkip(n) /\ NonSkip(k)
             /\ ActionAt(n).File = ActionAt(k).File
             /\ Happened("invoked", n) /\ Happened("invoked", k))
                => files[ActionAt(n).File] = pre.files[ActionAt(n).File]

(***************************************************************************)
(* Properties of the order of Execute's steps.                             *)
(***************************************************************************)
\* The invocations of the external tool, successful or not, as indices of the trace.
Invocations == {k \in 1..Len(trace) : trace[k].e \in {"invoked", "failed"}}
Earlier(e, n, k) == \E j \in 1..(k - 1) : trace[j] = Event(e, n)

\* C27: the tool is invoked for non-skip actions only, in plan order, each after the
\* backup of its own position was taken and after every non-skip action before it
\* succeeded; no invocation follows a failed one; no Skip action is backed up.
C27_InvocationsFollowPlanOrder ==
    /\ \A k \in Invocations :
          LET n == trace[k].at IN
          /\ n \in Positions
          /\ NonSkip(n)
          /\ Earlier("backup", n, k)
          /\ \A m \in 0..(n - 1) : NonSkip(m) => Earlier("invoked", m, k)
          /\ \A j \in Invocations :
                j < k => (trace[j].at < n /\ trace[j].e = "invoked")
    /\ \A k \in EventIndices("backup") : NonSkip(trace[k].at)

\* C27 witness: Execute returned after a Skip at position 0, a successful invocation
\* and a failed one, in that order.
C27_Witness ==
    /\ ExecuteReturned
    /\ Len(plan.Actions) >= 3
    /\ ~NonSkip(0)
    /\ \E k, j \in Invocations :
          /\ k < j
          /\ trace[k].e = "invoked" /\ trace[j].e = "failed"
          /\ 0 < trace[k].at /\ trace[k].at < trace[j].at

(***************************************************************************)
(* Properties of the old key during RotateKey.                             *)
(***************************************************************************)
\* C28: as long as RotateKey has files to re-encrypt (from the plan to the last
\* invocation of the tool), the member's old private key is in its file at keyPath.
C28_OldKeyPresentWhileReencrypting ==
    (op = "rotate" /\ pc \in {"reencrypt", "execute", "loop", "invoke"}) =>
        /\ keyFiles[keyPath] # NoKey
        /\ keyFiles[keyPath] = pre.keyFiles[keyPath]

(***************************************************************************)
(* Properties of the manifest over a project's life.                       *)
(***************************************************************************)
ScopeMembersAreMembers(m) ==
    \A n \in 1..Len(m.Scopes) :
        \A k \in 1..Len(m.Scopes[n].Members) : m.Scopes[n].Members[k] \in MemberIDs(m)

\* C29: from the manifest Init creates, through every sequence of AddMember,
\* RemoveMember and RotateKey calls, failed or not, every ID a scope lists is the ID of
\* a member, and ComputePlan on the persisted manifest does not fail on a member.
C29_ScopeMembersStayMembers ==
    /\ ScopeMembersAreMembers(manifestFile)
    /\ ComputePlan(manifestFile, files).err # "member"

\* C29 witness: after a rotation of alice's key and the addition of bob and carol, bob
\* was removed; the default scope lists alice and carol.
C29_Witness ==
    /\ Removed /\ result = "ok" /\ args[1] = "bob"
    /\ Holds(pre.manifestFile, "bob")
    /\ Len(manifestFile.Scopes) = 1
    /\ manifestFile.Scopes[1].Members = <<"alice", "carol">>
    /\ \E k \in Keys :
          /\ manifestFile.Members[1].AgeKey = PublicKey(k)
          /\ keyFiles[keyPathForPrivateKey(k)] = k
          /\ \E p \in KeyPaths : p # keyPathForPrivateKey(k) /\ keyFiles[p] # NoKey

(***************************************************************************)
(* Properties of the key directory when RotateKey returns.                 *)
(***************************************************************************)
\* A key file holds the private key of the identity the manifest records for the
\* acting user.
HoldsKeyOfActingMember(m, keys) ==
    \E n \in 1..Len(m.Members) :
        /\ m.Members[n].ID = CurrentUser
        /\ \E p \in DOMAIN keys :
              keys[p] # NoKey /\ PublicKey(keys[p]) = m.Members[n].AgeKey

\* C30: when RotateKey returns, with nil or with an error of any step, a key file
\* holds the private key of the acting member's identity in the persisted manifest,
\* provided one did when RotateKey was called.
C30_KeyFileMatchesManifest ==
    (RotateReturned /\ HoldsKeyOfActingMember(pre.manifestFile, pre.keyFiles)) =>
        HoldsKeyOfActingMember(manifestFile, keyFiles)

====
